---- MODULE Spec2Model ----
(***************************************************************************)
(* A model of openapi_lib_generator's generate module: the scaffold        *)
(* sequence of crate_scaffolds.rs (scaffold_crate and its steps), the      *)
(* test-spec writer of yamls.rs, and the Makefile.toml specification of    *)
(* makefiles.rs (MakefileEnv, NamedTask constructors, MakefileSpec).       *)
(*                                                                         *)
(* The target project directory is modelled as a flag (the path is a       *)
(* directory) and a function from the names of its entries to their        *)
(* contents; a file's content is a sequence of tokens, the token "\n"      *)
(* being a line break.  Option<T> is a sequence of length 0 (None) or 1    *)
(* (Some).  Every awaited filesystem call and the external `cargo init`    *)
(* may fail; their outcomes are chosen nondeterministically.               *)
(***************************************************************************)
EXTENDS Integers, Sequences, FiniteSets, TLC

\* ---------------------------------------------------------------- bounds

\* Number of invocations of the program on the same target directory.
MaxRuns == 2

\* ------------------------------------------------------- Option and names

None == <<>>
Some(v) == <<v>>
IsSome(o) == o # <<>>
Unwrap(o) == o[1]

\* Paths::TempDir "path" property: the internal working subdirectory.
Paths_TempDir == "temp"
\* Paths::GitignoreFile "path" property: the project's ignore file.
Paths_GitignoreFile == ".gitignore"
\* MakefileEnv::MAKEFILE_NAME
MAKEFILE_NAME == "Makefile.toml"
\* cli.get_output_project_dir(): the target directory's path.
OutputProjectDir == "/work/petstore_lib"

\* A local spec path inside the target directory, and one outside it.
SpecPathInside == "petstore.yaml"
SpecPathOutside == "/elsewhere/petstore.yaml"
\* testing::PETSTORE_YAML, the embedded sample document.
PETSTORE_YAML == <<"openapi: 3.0.0", "\n", "info: petstore", "\n">>

\* Content marking an entry that is a directory.
DirEntry == <<"<dir>">>
\* The directory with no entry.
EmptyDir == [n \in {} |-> <<>>]

\* Unrelated content a user may hold in the target directory beforehand.
UserReadme == <<"my notes", "\n">>
UserGitignore == <<"*.log", "\n", "/secrets", "\n">>
\* What `cargo init --lib` puts in the ignore file when it writes one.
CargoGitignore == <<"/target", "\n">>
CargoToml == <<"[package]", "\n">>

InitialDirs ==
  { EmptyDir,
    ("README.md" :> UserReadme),
    (Paths_GitignoreFile :> UserGitignore),
    ("README.md" :> UserReadme) @@ (Paths_GitignoreFile :> UserGitignore) }

\* ------------------------------------------------------------ CLI context

ApiUrl == "https://api.example.com"
SpecUrls == {"https://example.com/spec.json"}

\* cli.inner_cli as the generate module reads it.
Clis ==
  [ command : {None, Some("TestGeneration")},
    local_api_spec_filepath_opt : {None, Some(SpecPathInside), Some(SpecPathOutside)},
    api_spec_url_opt : {None} \cup {Some(u) : u \in SpecUrls},
    site_or_api_name : {"petstore"},
    api_url : {ApiUrl} ]

\* ------------------------------------------------------------ results

Result(kind, dir, text) == [kind |-> kind, crate_dir |-> dir, error_string |-> text]
Pending == Result("Pending", "", <<>>)
Ok == Result("Ok", "", <<>>)
IOError == Result("IOError", "", <<>>)
NonEmptyTargetDir(dir) == Result("NonEmptyTargetDir", dir, <<>>)
MissingCrateDir(dir) == Result("MissingCrateDir", dir, <<>>)
CargoInitFailed(dir, text) == Result("CargoInitFailed", dir, text)
TestingYAMLSpecPathMissing == Result("TestingYAMLSpecPathMissing", "", <<>>)

\* format!("{output:#?}") of a process Output.
DebugFmt(output) == <<"Output", output.status, output.stdout, output.stderr>>

\* The outputs `cargo init` may end with.
InitSuccess == [status |-> "0", stdout |-> "Created library package", stderr |-> ""]
InitFailure == [status |-> "101", stdout |-> "", stderr |-> "error: cargo init failed"]
\* No process was started; the process could not be started.
NoOutput == [status |-> "-", stdout |-> "", stderr |-> ""]
SpawnFailed == [status |-> "spawn failed", stdout |-> "", stderr |-> ""]

VARIABLES
  cli,          \* the CLI context of the current invocation
  runs,         \* invocations so far
  dirExists,    \* the target path is a directory
  files,        \* entries of the target directory -> content
  outside,      \* files outside the target directory -> content
  pc,           \* position in scaffold_crate
  result,       \* what scaffold_crate returned (Pending while it runs)
  steps,        \* the steps this invocation started, with what each returned
  pre,          \* the target directory as this invocation found it
  written,      \* names this invocation's steps created, changed or removed
  procOut,      \* what the last `cargo init` process ended with
  makefileSpec, \* what MakefileSpec::try_from returned in this invocation
  makefileWrite,\* what write_to_makefile returned in this invocation
  prevAborted,  \* the invocation before this one aborted, leaving entries
  lastOp        \* the operation that took the last step

vars == <<cli, runs, dirExists, files, outside, pc, result, steps, pre, written,
          procOut, makefileSpec, makefileWrite, prevAborted, lastOp>>

\* ------------------------------------------------------- filesystem helpers

Restrict(f, S) == [n \in S |-> f[n]]
\* fs::write: create or truncate the file, then write the content.
fs_write(f, name, content) == (name :> content) @@ f
\* fs::create_dir_all of a subdirectory: nothing changes when it is there.
fs_create_subdir(f, name) == IF name \in DOMAIN f THEN f ELSE (name :> DirEntry) @@ f
\* read_dir(..).next_entry() is Some
HasEntry(f) == DOMAIN f # {}
\* Names whose presence or content differs between two directories.
Changed(f, g) ==
  {n \in DOMAIN f \cup DOMAIN g :
     \/ n \notin DOMAIN f
     \/ n \notin DOMAIN g
     \/ (n \in DOMAIN f /\ n \in DOMAIN g /\ f[n] # g[n])}

\* The lines of a file's content: the token runs between line breaks.
RECURSIVE SplitLines(_, _)
SplitLines(content, cur) ==
  IF content = <<>> THEN <<cur>>
  ELSE IF Head(content) = "\n"
         THEN <<cur>> \o SplitLines(Tail(content), <<>>)
         ELSE SplitLines(Tail(content), Append(cur, Head(content)))
Lines(content) == SplitLines(content, <<>>)

\* format!("\n/{crate_temp_dir_str}")
GitignoreContent(temp_dir_str) == <<"\n", "/", temp_dir_str>>

is_test(c) == c.command = Some("TestGeneration")

\* Try with the error of a failing step dropped: the sequence goes on.
Try_swallow(step, res, next) ==
  /\ steps' = Append(steps, [name |-> step, res |-> res])
  /\ lastOp' = step
  /\ pc' = next
  /\ result' = IF next = "done" THEN Ok ELSE result

\* The `?` after each awaited step of scaffold_crate: an error is returned at
\* once; success moves on to the next step, or to Ok(()) after the last one.
Try(step, res, next) ==
  /\ steps' = Append(steps, [name |-> step, res |-> res])
  /\ lastOp' = step
  /\ IF res = Ok
       THEN /\ pc' = next
            /\ result' = IF next = "done" THEN Ok ELSE result
       ELSE /\ pc' = "failed"
            /\ result' = res

\* The target directory after a step, and what the step touched.
SetDir(exists, f) ==
  /\ dirExists' = exists
  /\ files' = f
  /\ written' = written \cup Changed(files, f)
                        \cup (IF exists # dirExists THEN {"."} ELSE {})

\* ------------------------------------------------------------ MakefileEnv

OPEN_API_GENERATOR_CONFIG_FILE == "generator_config.yaml"
OPEN_API_GENERATOR_CLI_URL ==
  "https://raw.githubusercontent.com/OpenAPITools/openapi-generator/master/bin/utils/openapi-generator-cli.sh"
OPEN_API_GENERATOR_CLI_SUBDIR == "bin/openapitools"
OPEN_API_GENERATOR_CLI_SCRIPT == "openapi-generator-cli"

\* The last component of a path or URL.
FileName(p) ==
  CASE p = SpecPathInside -> "petstore.yaml"
    [] p = SpecPathOutside -> "petstore.yaml"
    [] p = "https://example.com/spec.json" -> "spec.json"
    [] OTHER -> p

\* cli.try_get_spec_file_name(): the name of the local spec file, else the
\* name the spec URL ends with, else a missing-parameter error.
try_get_spec_file_name(c) ==
  IF IsSome(c.local_api_spec_filepath_opt)
    THEN [kind |-> "Ok", value |-> FileName(Unwrap(c.local_api_spec_filepath_opt))]
  ELSE IF IsSome(c.api_spec_url_opt)
    THEN [kind |-> "Ok", value |-> FileName(Unwrap(c.api_spec_url_opt))]
  ELSE [kind |-> "ParameterError", value |-> ""]

\* cli.get_lib_name()
get_lib_name(c) == c.site_or_api_name \o "_lib"

\* api_spec_url_string taking the API's base URL for the spec URL.
api_spec_url_string_base_url(c) ==
  IF IsSome(c.api_spec_url_opt) THEN c.api_url ELSE ""

\* api_spec_url_opt.as_ref().map(|api_url| api_url.to_string()).unwrap_or_default()
api_spec_url_string(c) ==
  IF IsSome(c.api_spec_url_opt) THEN Unwrap(c.api_spec_url_opt) ELSE ""

\* impl TryFrom<&Cli> for MakefileEnv; the fields carry their serialized
\* (SCREAMING_SNAKE_CASE) names.
MakefileEnv_try_from(c) ==
  LET spec_file_name == try_get_spec_file_name(c) IN
  IF spec_file_name.kind # "Ok"
    THEN [kind |-> spec_file_name.kind, env |-> <<>>]
    ELSE [kind |-> "Ok",
          env |->
            [ API_URL |-> c.api_url,
              API_NAME |-> c.site_or_api_name,
              LIB_NAME |-> get_lib_name(c),
              OUTPUT_DIR |-> ".",
              OUTPUT_TEMP_DIR |-> "./" \o Paths_TempDir,
              OPEN_API_GENERATOR_CLI_SUBDIR |-> OPEN_API_GENERATOR_CLI_SUBDIR,
              OPEN_API_GENERATOR_CLI_PATH |->
                "${OPEN_API_GENERATOR_CLI_SUBDIR}/${OPEN_API_GENERATOR_CLI_SCRIPT}",
              OPEN_API_GENERATOR_CLI_SCRIPT |-> OPEN_API_GENERATOR_CLI_SCRIPT,
              OPEN_API_GENERATOR_CLI_URL |-> OPEN_API_GENERATOR_CLI_URL,
              OPEN_API_GENERATOR_CONFIG_FILE |-> OPEN_API_GENERATOR_CONFIG_FILE,
              OPEN_API_GENERATOR_CONFIG_PATH |-> "${OPEN_API_GENERATOR_CONFIG_FILE}",
              SPEC_FILE_DOWNLOAD_DIR |-> "${OUTPUT_TEMP_DIR}/specdl",
              SPEC_FILE_NAME |-> spec_file_name.value,
              SPEC_FILE_PATH |-> "${SPEC_FILE_NAME}",
              SPEC_FILE_URL |-> api_spec_url_string(c) ]]

\* -------------------------------------------------------------- NamedTask

\* Task { ..Default::default() }
DefaultTask ==
  [ description |-> None, command |-> None, args |-> None, dependencies |-> None,
    condition_script |-> None, script_runner |-> None, script |-> None ]

NamedTask(name, task) == [name |-> name, task |-> task]

CODE_GENERATION_OPTS ==
  << "generate",
     "--generator-name", "rust",
     "--output", "${OUTPUT_DIR}",
     "--input-spec", "${SPEC_FILE_PATH}",
     "--config", "${OPEN_API_GENERATOR_CONFIG_PATH}" >>

make_cargo_fix_task ==
  NamedTask("cargo-fix-generated",
    [DefaultTask EXCEPT
       !.description = Some("Fix ${LIB_NAME} project generated code'."),
       !.command = Some("cargo"),
       !.args = Some(<<"fix", "--broken-code", "--allow-dirty", "--all-targets",
                       "--all-features", "--verbose", "--verbose">>)])

\* make_crate_scaffold_task naming a task no constructor builds.
make_crate_scaffold_task_unknown_dep ==
  NamedTask("crate-scaffold",
    [DefaultTask EXCEPT
       !.description = Some("Setup ${LIB_NAME} project'."),
       !.dependencies = Some(<<"output-dir-setup", "output-dir-clean">>)])

make_crate_scaffold_task ==
  NamedTask("crate-scaffold",
    [DefaultTask EXCEPT
       !.description = Some("Setup ${LIB_NAME} project'."),
       !.dependencies = Some(<<"output-dir-create", "output-dir-clean">>)])

\* What CargoConfigurator::new(cli)? and serde_yaml::to_string(..)? may end with.
ConfiguratorOutcomes == {"Ok", "CargoConfigError", "SerdeYAMLError"}

\* make_generate_all_task(cli), given how building and serializing the cargo
\* configurator ended.
make_generate_all_task(c, configurator) ==
  IF configurator # "Ok"
    THEN [kind |-> configurator, named |-> NamedTask("generate-all", DefaultTask)]
    ELSE [kind |-> "Ok",
          named |->
            NamedTask("generate-all",
              [DefaultTask EXCEPT
                 !.description =
                    Some("Generate ${LIB_NAME} code and try to get it up to par"),
                 !.dependencies = Some(<<"lib-code-generate", "cargo-fix-generated">>),
                 !.script_runner = Some("@rust"),
                 !.script = Some(<<"//! cargo", "this_crate_name", "this_crate_ver",
                                   "configurator_yaml:" \o get_lib_name(c),
                                   "cargo_configurator.update_cargo_toml().await?;">>)])]

\* make_lib_code_generator_task with the dry-run flag pushed onto the option
\* list itself, so that every variant sees it.
make_lib_code_generator_task_shared_opts(is_dry_run) ==
  LET dry == is_dry_run = Some(TRUE)
      args == Append(CODE_GENERATION_OPTS, "--dry-run")
      name == IF dry THEN "lib-code-generate" \o "-dry-run" ELSE "lib-code-generate"
  IN NamedTask(name,
       [DefaultTask EXCEPT
          !.description = Some("Generate ${LIB_NAME} code"),
          !.condition_script =
             Some(<< "#!/bin/bash",
                     "# check if openapi cli command exists",
                     "if command -v ${OPEN_API_GENERATOR_CLI_SCRIPT} >& /dev/null ;  then",
                     "echo \"Found OpenAPI CLI command.\"",
                     "exit 0",
                     "else",
                     "echo \"Missing OpenAPI CLI command. Try running cargo make openapi-cli-bash-install\"",
                     "exit 1",
                     "fi" >>),
          !.command = Some("${OPEN_API_GENERATOR_CLI_SCRIPT}"),
          !.args = Some(args)])

\* make_lib_code_generator_task: a clone of the option list and the name, the
\* flag and the suffix pushed only for Some(true).
make_lib_code_generator_task(is_dry_run) ==
  LET dry == is_dry_run = Some(TRUE)
      args == IF dry THEN Append(CODE_GENERATION_OPTS, "--dry-run")
                     ELSE CODE_GENERATION_OPTS
      name == IF dry THEN "lib-code-generate" \o "-dry-run" ELSE "lib-code-generate"
  IN NamedTask(name,
       [DefaultTask EXCEPT
          !.description = Some("Generate ${LIB_NAME} code"),
          !.condition_script =
             Some(<< "#!/bin/bash",
                     "# check if openapi cli command exists",
                     "if command -v ${OPEN_API_GENERATOR_CLI_SCRIPT} >& /dev/null ;  then",
                     "echo \"Found OpenAPI CLI command.\"",
                     "exit 0",
                     "else",
                     "echo \"Missing OpenAPI CLI command. Try running cargo make openapi-cli-bash-install\"",
                     "exit 1",
                     "fi" >>),
          !.command = Some("${OPEN_API_GENERATOR_CLI_SCRIPT}"),
          !.args = Some(args)])

make_openapi_cli_check_task ==
  NamedTask("openapi-cli-check",
    [DefaultTask EXCEPT
       !.description = Some("Check that openapi cli generator tool is installed"),
       !.command = Some("command"),
       !.args = Some(<<"-v", "${OPEN_API_GENERATOR_CLI_SCRIPT}">>)])

make_openapi_cli_install_task ==
  NamedTask("openapi-cli-bash-install",
    [DefaultTask EXCEPT
       !.description = Some("Install Open API generator CLI'."),
       !.script = Some(<<"#!/bin/bash", "get_cli", "deal_with_cli">>)])

make_output_dir_clean_task ==
  NamedTask("output-dir-clean",
    [DefaultTask EXCEPT
       !.description = Some("Setup ${LIB_NAME} output dir at ${OUTPUT_DIR}'."),
       !.command = Some("rm"),
       !.args = Some(<<"-rf", "${OUTPUT_DIR}/*">>)])

\* make_output_dir_create_task under the name of the clean task.
make_output_dir_create_task_misnamed ==
  NamedTask("output-dir-clean",
    [DefaultTask EXCEPT
       !.description = Some("Create ${LIB_NAME} output dir at ${OUTPUT_DIR}'."),
       !.command = Some("mkdir")])

make_output_dir_create_task ==
  NamedTask("output-dir-create",
    [DefaultTask EXCEPT
       !.description = Some("Create ${LIB_NAME} output dir at ${OUTPUT_DIR}'."),
       !.command = Some("mkdir")])

make_spec_download_default_task ==
  NamedTask("spec-download-default",
    [DefaultTask EXCEPT
       !.description =
          Some("Downloads ${API_NAME} Open API specification from '${API_URL}'."),
       !.command = Some("wget"),
       !.args = Some(<<"${SPEC_FILE_URL}", "-O", "${SPEC_FILE_PATH}">>)])

make_spec_download_task ==
  NamedTask("spec-download",
    [DefaultTask EXCEPT
       !.description =
          Some("Downloads ${API_NAME} Open API specification from specified vararg'."),
       !.command = Some("wget"),
       !.args = Some(<<"${@}", "-O", "${SPEC_FILE_PATH}">>)])

\* ------------------------------------------------------------ MakefileSpec

\* HashMap::from_iter over (name, task) pairs: a later pair with the name of
\* an earlier one replaces it.
HashMapFromIter(named) ==
  [n \in {named[i].name : i \in DOMAIN named} |->
     named[CHOOSE i \in DOMAIN named :
             /\ named[i].name = n
             /\ \A j \in DOMAIN named : named[j].name = n => j <= i].task]

\* if cli.inner_cli.api_spec_url_opt.is_some() { named_tasks.push(..) }
WithDefaultDownload(c, named) ==
  IF IsSome(c.api_spec_url_opt)
    THEN Append(named, make_spec_download_default_task)
    ELSE named

\* The named_tasks vector of MakefileSpec::try_from.
named_tasks(c, generate_all) ==
  WithDefaultDownload(c,
    << make_cargo_fix_task,
       make_crate_scaffold_task,
       generate_all,
       make_lib_code_generator_task(None),
       make_lib_code_generator_task(Some(TRUE)),
       make_openapi_cli_check_task,
       make_openapi_cli_install_task,
       make_output_dir_clean_task,
       make_output_dir_create_task,
       make_spec_download_task >>)

\* MakefileSpec::try_from keeping, when generate-all cannot be built, the
\* environment and the tasks constructed before it.
MakefileSpec_try_from_partial(c, configurator) ==
  LET envR == MakefileEnv_try_from(c)
      gen == make_generate_all_task(c, configurator)
  IN IF envR.kind # "Ok"
       THEN [kind |-> envR.kind, env |-> <<>>, tasks |-> EmptyDir]
     ELSE IF gen.kind # "Ok"
       THEN [kind |-> gen.kind,
             env |-> envR.env,
             tasks |-> HashMapFromIter(<<make_cargo_fix_task, make_crate_scaffold_task>>)]
     ELSE [kind |-> "Ok",
           env |-> envR.env,
           tasks |-> HashMapFromIter(named_tasks(c, gen.named))]

\* impl TryFrom<&Cli> for MakefileSpec
MakefileSpec_try_from(c, configurator) ==
  LET envR == MakefileEnv_try_from(c)
      gen == make_generate_all_task(c, configurator)
  IN IF envR.kind # "Ok"
       THEN [kind |-> envR.kind, env |-> <<>>, tasks |-> EmptyDir]
     ELSE IF gen.kind # "Ok"
       THEN [kind |-> gen.kind, env |-> <<>>, tasks |-> EmptyDir]
     ELSE [kind |-> "Ok",
           env |-> envR.env,
           tasks |-> HashMapFromIter(named_tasks(c, gen.named))]

\* The dependency names a task lists.
DependenciesOf(task) ==
  IF IsSome(task.dependencies)
    THEN {Unwrap(task.dependencies)[i] : i \in DOMAIN Unwrap(task.dependencies)}
    ELSE {}

\* Every task name a Makefile.toml may hold, in the order they are written.
TaskNameOrder ==
  << "cargo-fix-generated", "crate-scaffold", "generate-all", "lib-code-generate",
     "lib-code-generate-dry-run", "openapi-cli-bash-install", "openapi-cli-check",
     "output-dir-clean", "output-dir-create", "spec-download",
     "spec-download-default" >>

\* toml::to_string_pretty(self): the env table, then one table per task.
RECURSIVE TaskTables(_, _)
TaskTables(tasks, i) ==
  IF i > Len(TaskNameOrder) THEN <<>>
  ELSE (IF TaskNameOrder[i] \in DOMAIN tasks
          THEN <<"[tasks." \o TaskNameOrder[i] \o "]", "\n">>
          ELSE <<>>) \o TaskTables(tasks, i + 1)
TomlPretty(spec) ==
  <<"[env]", "\n", "SPEC_FILE_URL = ", spec.env.SPEC_FILE_URL, "\n">>
    \o TaskTables(spec.tasks, 1)

\* --------------------------------------------------------------- Init

Init ==
  /\ cli \in Clis
  /\ runs = 1
  /\ \/ dirExists = FALSE /\ files = EmptyDir
     \/ dirExists = TRUE /\ files \in InitialDirs
  /\ outside = EmptyDir
  /\ pc = "idle"
  /\ result = Pending
  /\ steps = <<>>
  /\ pre = [exists |-> dirExists, files |-> files]
  /\ written = {}
  /\ procOut = NoOutput
  /\ makefileSpec = None
  /\ makefileWrite = Pending
  /\ prevAborted = FALSE
  /\ lastOp = "start"

\* ------------------------------------------------- scaffold_crate's steps

Outcome(exists, f, res) == [exists |-> exists, files |-> f, res |-> res]

\* create_testing_folder without the removal of the existing directory.
testing_folder_outcome_no_wipe(exists, f, rmOk, mkOk, left) ==
  IF ~mkOk THEN Outcome(exists, f, IOError) ELSE Outcome(TRUE, f, Ok)

\* create_testing_folder: delete the directory if it is one (a failing
\* remove_dir_all may have removed any of the entries), then create it.
testing_folder_outcome(exists, f, rmOk, mkOk, left) ==
  IF exists /\ ~rmOk THEN Outcome(TRUE, Restrict(f, left), IOError)
  ELSE IF ~mkOk THEN Outcome(FALSE, EmptyDir, IOError)
  ELSE Outcome(TRUE, EmptyDir, Ok)

\* check_empty with the emptiness test left out.
check_empty_skipped(f) == Ok

\* read_dir(dir_path).next_entry() is Some: the directory is not empty.
check_empty(f) ==
  IF HasEntry(f) THEN NonEmptyTargetDir(OutputProjectDir) ELSE Ok

\* create_crate_folder_and_check_empty preparing the directory the way test
\* mode does: whatever it holds is removed.
crate_folder_outcome_wipes(exists, f, mkOk, readOk) ==
  IF ~mkOk THEN Outcome(exists, f, IOError) ELSE Outcome(TRUE, EmptyDir, Ok)

\* create_crate_folder_and_check_empty: create the directory if absent, then
\* fail if it has an entry.
crate_folder_outcome(exists, f, mkOk, readOk) ==
  IF ~mkOk THEN Outcome(exists, f, IOError)
  ELSE IF ~readOk THEN Outcome(TRUE, f, IOError)
  ELSE Outcome(TRUE, f, check_empty(f))

\* Step 1 of scaffold_crate, test-generation.
create_testing_folder ==
  /\ pc = "idle"
  /\ is_test(cli)
  /\ pre' = [exists |-> dirExists, files |-> files]
  /\ \E rmOk \in BOOLEAN, mkOk \in BOOLEAN, left \in SUBSET DOMAIN files :
       LET o == testing_folder_outcome(dirExists, files, rmOk, mkOk, left) IN
       /\ SetDir(o.exists, o.files)
       /\ Try("create_testing_folder", o.res, "init")
  /\ UNCHANGED <<cli, runs, prevAborted, outside, procOut, makefileSpec, makefileWrite>>

\* Step 1 of scaffold_crate otherwise.
create_crate_folder_and_check_empty ==
  /\ pc = "idle"
  /\ ~is_test(cli)
  /\ pre' = [exists |-> dirExists, files |-> files]
  /\ \E mkOk \in BOOLEAN, readOk \in BOOLEAN :
       LET o == crate_folder_outcome(dirExists, files, mkOk, readOk) IN
       /\ SetDir(o.exists, o.files)
       /\ Try("create_crate_folder_and_check_empty", o.res, "init")
  /\ UNCHANGED <<cli, runs, prevAborted, outside, procOut, makefileSpec, makefileWrite>>

\* What `cargo init --lib <dir>` leaves in the directory when it succeeds:
\* the manifest, the source directory and, when it sets up version control,
\* the repository directory and an ignore file.
CargoInitSuccessDirs(f) ==
  { ("Cargo.toml" :> CargoToml) @@ ("src" :> DirEntry) @@ f,
    (".git" :> DirEntry) @@ (Paths_GitignoreFile :> CargoGitignore)
       @@ ("Cargo.toml" :> CargoToml) @@ ("src" :> DirEntry) @@ f }
\* ... and when it fails: nothing, or a manifest.
CargoInitFailureDirs(f) == {f, ("Cargo.toml" :> CargoToml) @@ f}

\* init_result with the exit status not looked at.
init_result_ignoring_status(output) == Ok

\* The closure over the process output: success on exit status zero, else
\* CargoInitFailed with the output's debug text.
init_result(output) ==
  IF output.status = "0"
    THEN Ok
    ELSE CargoInitFailed(OutputProjectDir, DebugFmt(output))

\* init_crate: what it may return, with the directory and the process output
\* it leaves.
init_crate_outcomes(exists, f) ==
  IF ~exists
    THEN {[exists |-> exists, files |-> f, out |-> NoOutput,
           res |-> MissingCrateDir(OutputProjectDir)]}
    ELSE {[exists |-> exists, files |-> f, out |-> SpawnFailed, res |-> IOError]}
         \cup {[exists |-> TRUE, files |-> g, out |-> InitSuccess,
                res |-> init_result(InitSuccess)] : g \in CargoInitSuccessDirs(f)}
         \cup {[exists |-> TRUE, files |-> g, out |-> InitFailure,
                res |-> init_result(InitFailure)] : g \in CargoInitFailureDirs(f)}

\* Step 2 of scaffold_crate.
init_crate ==
  /\ pc = "init"
  /\ \E o \in init_crate_outcomes(dirExists, files) :
       /\ SetDir(o.exists, o.files)
       /\ procOut' = o.out
       /\ Try("init_crate", o.res, "tree")
  /\ UNCHANGED <<cli, runs, prevAborted, outside, pre, makefileSpec, makefileWrite>>

\* setup_tree_in_crate: create the internal working subdirectory, and any
\* missing parent.
tree_outcome(exists, f, mkOk) ==
  IF mkOk THEN Outcome(TRUE, fs_create_subdir(f, Paths_TempDir), Ok)
  ELSE Outcome(exists, f, IOError)

\* Step 3 of scaffold_crate.
setup_tree_in_crate ==
  /\ pc = "tree"
  /\ \E mkOk \in BOOLEAN :
       LET o == tree_outcome(dirExists, files, mkOk) IN
       /\ SetDir(o.exists, o.files)
       /\ Try("setup_tree_in_crate", o.res, "git")
  /\ UNCHANGED <<cli, runs, prevAborted, outside, pre, procOut, makefileSpec, makefileWrite>>

\* setup_git_in_crate appending to the ignore file instead of writing it.
git_outcome_append(exists, f, wrOk) ==
  IF wrOk /\ exists
    THEN Outcome(TRUE,
                 fs_write(f, Paths_GitignoreFile,
                          (IF Paths_GitignoreFile \in DOMAIN f
                             THEN f[Paths_GitignoreFile] ELSE <<>>)
                          \o GitignoreContent(Paths_TempDir)), Ok)
    ELSE Outcome(exists, f, IOError)

\* setup_git_in_crate going on to emit the pipeline document itself.
git_outcome_emits_makefile(exists, f, wrOk) ==
  IF wrOk /\ exists
    THEN Outcome(TRUE,
                 fs_write(fs_write(f, Paths_GitignoreFile,
                                   GitignoreContent(Paths_TempDir)),
                          MAKEFILE_NAME, <<"[env]", "\n">>), Ok)
    ELSE Outcome(exists, f, IOError)

\* setup_git_in_crate: write the ignore file; the write fails when the
\* directory is not there.
git_outcome(exists, f, wrOk) ==
  IF wrOk /\ exists
    THEN Outcome(TRUE,
                 fs_write(f, Paths_GitignoreFile, GitignoreContent(Paths_TempDir)), Ok)
    ELSE Outcome(exists, f, IOError)

\* after_git with the test of is_test left out.
after_git_always_spec(c) == "spec"

\* if is_test { yamls::create_testing_spec_file(cli).await?; } Ok(())
after_git(c) == IF is_test(c) THEN "spec" ELSE "done"

\* Step 4 of scaffold_crate.
setup_git_in_crate ==
  /\ pc = "git"
  /\ \E wrOk \in BOOLEAN :
       LET o == git_outcome(dirExists, files, wrOk) IN
       /\ SetDir(o.exists, o.files)
       /\ Try("setup_git_in_crate", o.res, after_git(cli))
  /\ UNCHANGED <<cli, runs, prevAborted, outside, pre, procOut, makefileSpec, makefileWrite>>

\* create_testing_spec_file falling back to a default path inside the target
\* directory when no local spec path was resolved.
spec_file_outcome_default_path(c, exists, f, out, wrOk) ==
  LET path_opt == c.local_api_spec_filepath_opt IN
  IF ~IsSome(path_opt) \/ Unwrap(path_opt) = SpecPathInside
    THEN IF wrOk /\ exists
           THEN [files |-> fs_write(f, SpecPathInside, PETSTORE_YAML),
                 outside |-> out, res |-> Ok]
           ELSE [files |-> f, outside |-> out, res |-> IOError]
  ELSE IF wrOk
    THEN [files |-> f, outside |-> fs_write(out, Unwrap(path_opt), PETSTORE_YAML),
          res |-> Ok]
  ELSE [files |-> f, outside |-> out, res |-> IOError]

\* create_testing_spec_file: the local spec path, or the missing-parameter
\* error; then the write of the embedded document to that path, inside the
\* target directory or outside it.
spec_file_outcome(c, exists, f, out, wrOk) ==
  LET path_opt == c.local_api_spec_filepath_opt IN
  IF ~IsSome(path_opt)
    THEN [files |-> f, outside |-> out, res |-> TestingYAMLSpecPathMissing]
  ELSE IF Unwrap(path_opt) = SpecPathInside
    THEN IF wrOk /\ exists
           THEN [files |-> fs_write(f, Unwrap(path_opt), PETSTORE_YAML),
                 outside |-> out, res |-> Ok]
           ELSE [files |-> f, outside |-> out, res |-> IOError]
  ELSE IF wrOk
    THEN [files |-> f, outside |-> fs_write(out, Unwrap(path_opt), PETSTORE_YAML),
          res |-> Ok]
  ELSE [files |-> f, outside |-> out, res |-> IOError]

\* Step 5 of scaffold_crate, test-generation only.
create_testing_spec_file ==
  /\ pc = "spec"
  /\ \E wrOk \in BOOLEAN :
       LET o == spec_file_outcome(cli, dirExists, files, outside, wrOk) IN
       /\ SetDir(dirExists, o.files)
       /\ outside' = o.outside
       /\ Try("create_testing_spec_file", o.res, "done")
  /\ UNCHANGED <<cli, runs, prevAborted, pre, procOut, makefileSpec, makefileWrite>>

\* ------------------------------------------------- the Makefile.toml steps

\* MakefileSpec::try_from(cli), called once scaffold_crate has returned.
BuildMakefileSpec ==
  /\ pc \in {"done", "failed"}
  /\ makefileSpec = None
  /\ \E configurator \in ConfiguratorOutcomes :
       makefileSpec' = Some(MakefileSpec_try_from(cli, configurator))
  /\ lastOp' = "MakefileSpec::try_from"
  /\ UNCHANGED <<cli, runs, prevAborted, dirExists, files, outside, pc, result, steps, pre,
                 written, procOut, makefileWrite>>

\* MakefileSpec::write_to_makefile: serialize, then write the document into
\* the target directory under MAKEFILE_NAME.
write_to_makefile ==
  /\ pc \in {"done", "failed"}
  /\ IsSome(makefileSpec)
  /\ Unwrap(makefileSpec).kind = "Ok"
  /\ makefileWrite = Pending
  /\ \E serOk \in BOOLEAN, wrOk \in BOOLEAN :
       IF ~serOk
         THEN /\ makefileWrite' = Result("TomlSerError", "", <<>>)
              /\ files' = files
       ELSE IF wrOk /\ dirExists
         THEN /\ makefileWrite' = Ok
              /\ files' = fs_write(files, MAKEFILE_NAME, TomlPretty(Unwrap(makefileSpec)))
       ELSE /\ makefileWrite' = IOError
            /\ files' = files
  /\ lastOp' = "write_to_makefile"
  /\ UNCHANGED <<cli, runs, prevAborted, dirExists, outside, pc, result, steps, pre, written,
                 procOut, makefileSpec>>

\* scaffold_crate, not in test mode, returned the error of init_crate or of a
\* later step, and an entry its steps created is in the target directory:
\* no step and no error path removes what an earlier step created.
AbortedPartial ==
  /\ ~is_test(cli)
  /\ pc = "failed"
  /\ Len(steps) >= 2
  /\ dirExists
  /\ written \cap DOMAIN files # {}

\* The program is run again, on the same target directory, with a CLI
\* context of its own.
NewInvocation ==
  /\ pc \in {"done", "failed"}
  /\ runs < MaxRuns
  /\ runs' = runs + 1
  /\ prevAborted' = AbortedPartial
  /\ cli' \in Clis
  /\ pc' = "idle"
  /\ result' = Pending
  /\ steps' = <<>>
  /\ pre' = [exists |-> dirExists, files |-> files]
  /\ written' = {}
  /\ makefileSpec' = None
  /\ makefileWrite' = Pending
  /\ lastOp' = "start"
  /\ procOut' = NoOutput
  /\ UNCHANGED <<dirExists, files, outside>>

\* Something other than this program removes the target directory while
\* scaffold_crate is between two steps.
EnvRemoveDir ==
  /\ dirExists
  /\ pc \in {"init", "tree", "git", "spec"}
  /\ dirExists' = FALSE
  /\ files' = EmptyDir
  /\ lastOp' = "env"
  /\ UNCHANGED <<cli, runs, prevAborted, outside, pc, result, steps, pre, written, procOut,
                 makefileSpec, makefileWrite>>

Next ==
  \/ create_testing_folder
  \/ create_crate_folder_and_check_empty
  \/ init_crate
  \/ setup_tree_in_crate
  \/ setup_git_in_crate
  \/ create_testing_spec_file
  \/ BuildMakefileSpec
  \/ write_to_makefile
  \/ NewInvocation
  \/ EnvRemoveDir

Spec == Init /\ [][Next]_vars

\* ================================================================ claims

\* The steps of scaffold_crate in the order the code calls them.
StepOrder(c) ==
  << IF is_test(c) THEN "create_testing_folder"
                   ELSE "create_crate_folder_and_check_empty",
     "init_crate", "setup_tree_in_crate", "setup_git_in_crate" >>
  \o (IF is_test(c) THEN <<"create_testing_spec_file">> ELSE <<>>)
\* Where scaffold_crate stands after n successful steps, n < 5.
PcSeq == <<"idle", "init", "tree", "git", "spec">>
\* The target directory held an entry when this invocation began.
WasPopulated == pre.exists /\ HasEntry(pre.files)

\* C1 as stated: in a non-test invocation directory preparation succeeds if
\* and only if the target directory was absent or present-and-empty, and a
\* populated directory makes scaffold_crate fail with NonEmptyTargetDir, no
\* later step run and nothing written.
C1_AsStated ==
  (~is_test(cli) /\ steps # <<>>) =>
    /\ (steps[1].res = Ok <=> ~WasPopulated)
    /\ (WasPopulated =>
          /\ result = NonEmptyTargetDir(OutputProjectDir)
          /\ Len(steps) = 1
          /\ written = {})

\* C1, amended: in a non-test invocation directory preparation succeeds only
\* if the target directory was absent or present-and-empty, and then it
\* succeeds unless create_dir_all or read_dir fails with an I/O error; when
\* the directory holds an entry scaffold_crate fails with NonEmptyTargetDir
\* (or with that I/O error), no later step runs, nothing is written inside
\* the directory and its content is as it was.
C1_PrepareNonTest ==
  (~is_test(cli) /\ steps # <<>>) =>
    /\ steps[1].name = "create_crate_folder_and_check_empty"
    /\ (steps[1].res = Ok => ~WasPopulated)
    /\ (~WasPopulated => steps[1].res \in {Ok, IOError})
    /\ (WasPopulated =>
          /\ steps[1].res \in {NonEmptyTargetDir(OutputProjectDir), IOError}
          /\ pc = "failed"
          /\ result = steps[1].res
          /\ Len(steps) = 1
          /\ written = {}
          /\ dirExists
          /\ (makefileWrite # Ok => files = pre.files))

\* A populated directory refused by a non-test invocation, left as it was.
C1_Witness ==
  /\ ~is_test(cli)
  /\ pc = "failed"
  /\ result = NonEmptyTargetDir(OutputProjectDir)
  /\ WasPopulated
  /\ files = pre.files

\* C2: in a test-generation invocation, once create_testing_folder has
\* succeeded the target directory exists and is empty whatever it held
\* before; init_crate is invoked only after that, and finds none of the
\* entries the invocation began with (every one of them was removed).
C2_TestFolderWiped ==
  is_test(cli) =>
    /\ (steps # <<>> => steps[1].name = "create_testing_folder")
    /\ ((pc = "init" /\ lastOp = "create_testing_folder") =>
          dirExists /\ files = EmptyDir)
    /\ (pc = "init" => files = EmptyDir /\ steps[1].res = Ok)
    /\ (Len(steps) >= 2 => steps[1].res = Ok /\ steps[2].name = "init_crate")
    /\ ((steps # <<>> /\ steps[1].res = Ok) => DOMAIN pre.files \subseteq written)

\* A populated directory wiped by create_testing_folder, init_crate next.
C2_Witness ==
  /\ is_test(cli)
  /\ pc = "init"
  /\ lastOp = "create_testing_folder"
  /\ WasPopulated
  /\ dirExists
  /\ files = EmptyDir

\* C3: the steps run in one fixed order; a step starts only if every earlier
\* step returned success; the first failing step's error is what
\* scaffold_crate returns, with no later step and no step run twice.
C3_StrictOrder ==
  LET order == StepOrder(cli)
      n == Len(steps)
  IN /\ n <= Len(order)
     /\ \A i \in 1..n : steps[i].name = order[i]
     /\ \A i \in 1..(n - 1) : steps[i].res = Ok
     /\ (pc = "failed" <=> (n > 0 /\ steps[n].res # Ok))
     /\ (pc = "failed" => result = steps[n].res)
     /\ (pc = "done" <=> (n = Len(order) /\ steps[n].res = Ok))
     /\ (pc = "done" => result = Ok)
     /\ (pc \notin {"done", "failed"} => result = Pending /\ pc = PcSeq[n + 1])

\* The third step failed: its error is the result and nothing ran after it.
C3_Witness ==
  /\ pc = "failed"
  /\ Len(steps) = 3
  /\ steps[3].name = "setup_tree_in_crate"
  /\ result = IOError

\* MakefileSpec::try_from has returned a Graph Spec in this invocation.
SpecBuilt == IsSome(makefileSpec) /\ Unwrap(makefileSpec).kind = "Ok"
\* The last step scaffold_crate took, and what it returned.
LastStep == steps[Len(steps)]

\* C4 as stated: a successful run of scaffold_crate ends with the pipeline
\* document (Makefile.toml) written into the target directory.
C4_AsStated == pc = "done" => MAKEFILE_NAME \in DOMAIN files

\* C4, amended: scaffold_crate ends with the ignore-file write or, in test
\* mode, with the test-spec emission, and does not emit the graph: when it
\* has returned success and write_to_makefile has not been called, the target
\* directory holds no Makefile.toml; a Makefile.toml that this invocation put
\* there was written by MakefileSpec::write_to_makefile.
C4_ScaffoldEmitsNoGraph ==
  /\ (pc = "done" =>
        LastStep.name = (IF is_test(cli) THEN "create_testing_spec_file"
                                          ELSE "setup_git_in_crate"))
  /\ ((pc = "done" /\ makefileWrite = Pending) => MAKEFILE_NAME \notin DOMAIN files)
  /\ ((/\ MAKEFILE_NAME \in DOMAIN files
       /\ (MAKEFILE_NAME \notin DOMAIN pre.files \/ MAKEFILE_NAME \in written))
        => makefileWrite = Ok)

\* scaffold_crate has returned success and there is no Makefile.toml.
C4_Witness ==
  /\ pc = "done"
  /\ result = Ok
  /\ makefileWrite = Pending
  /\ dirExists
  /\ MAKEFILE_NAME \notin DOMAIN files

\* The ten task names every Graph Spec holds.
FixedTaskNames ==
  { "cargo-fix-generated", "crate-scaffold", "generate-all", "lib-code-generate",
    "lib-code-generate-dry-run", "openapi-cli-check", "openapi-cli-bash-install",
    "output-dir-clean", "output-dir-create", "spec-download" }

\* C5: whenever MakefileSpec::try_from succeeds, the keys of the task mapping
\* are the ten fixed names, plus spec-download-default exactly when a default
\* spec URL was supplied (10 or 11 keys); the constructed names are pairwise
\* distinct, so every constructed task is in the mapping under its name.
C5_TaskCatalog ==
  SpecBuilt =>
    LET tasks == Unwrap(makefileSpec).tasks
        named == named_tasks(cli, make_generate_all_task(cli, "Ok").named)
        withUrl == IsSome(cli.api_spec_url_opt)
    IN /\ DOMAIN tasks =
            FixedTaskNames \cup (IF withUrl THEN {"spec-download-default"} ELSE {})
       /\ Cardinality(DOMAIN tasks) = (IF withUrl THEN 11 ELSE 10)
       /\ \A i, j \in DOMAIN named : i # j => named[i].name # named[j].name
       /\ \A i \in DOMAIN named : tasks[named[i].name] = named[i].task

\* A Graph Spec built with a default spec URL: eleven keys.
C5_Witness ==
  /\ SpecBuilt
  /\ IsSome(cli.api_spec_url_opt)
  /\ Cardinality(DOMAIN Unwrap(makefileSpec).tasks) = 11

\* C6: in every Graph Spec MakefileSpec::try_from produces, each dependency
\* name a task lists is a key of the same task mapping.
C6_DependenciesClosed ==
  SpecBuilt =>
    LET tasks == Unwrap(makefileSpec).tasks
    IN \A n \in DOMAIN tasks : DependenciesOf(tasks[n]) \subseteq DOMAIN tasks

\* A Graph Spec without the default download whose tasks list dependencies.
C6_Witness ==
  /\ SpecBuilt
  /\ ~IsSome(cli.api_spec_url_opt)
  /\ DependenciesOf(Unwrap(makefileSpec).tasks["crate-scaffold"]) # {}
  /\ DependenciesOf(Unwrap(makefileSpec).tasks["generate-all"]) # {}

\* C7: init_crate fails with MissingCrateDir, the initializer not started,
\* when the target directory does not exist at that point; when it exists and
\* the initializer exits non-zero it fails with CargoInitFailed carrying the
\* captured output; it returns success only on exit status zero.
C7_InitCrate ==
  [][ (pc = "init" /\ lastOp' = "init_crate") =>
        LET r == steps'[Len(steps')].res IN
        /\ (~dirExists =>
              /\ r = MissingCrateDir(OutputProjectDir)
              /\ procOut' = NoOutput
              /\ files' = files
              /\ ~dirExists')
        /\ (dirExists => procOut' # NoOutput)
        /\ ((dirExists /\ procOut'.status \notin {"0", "spawn failed"}) =>
              r = CargoInitFailed(OutputProjectDir, DebugFmt(procOut')))
        /\ (r = Ok => dirExists /\ procOut'.status = "0") ]_vars

\* init_crate found the directory gone and started no process.
C7_Witness ==
  /\ lastOp = "init_crate"
  /\ pc = "failed"
  /\ result = MissingCrateDir(OutputProjectDir)
  /\ procOut = NoOutput

\* The content of the file at a local spec path, <<>> when there is none.
FileAt(path) ==
  IF path = SpecPathInside
    THEN (IF path \in DOMAIN files THEN files[path] ELSE <<>>)
    ELSE (IF path \in DOMAIN outside THEN outside[path] ELSE <<>>)

C8_Steps ==
  LET n == Len(steps)
      path_opt == cli.local_api_spec_filepath_opt
  IN /\ (~is_test(cli) =>
           \A i \in 1..n : steps[i].name # "create_testing_spec_file")
     /\ \A i \in 1..n :
          steps[i].name = "create_testing_spec_file" =>
            is_test(cli) /\ i = 5 /\ \A j \in 1..4 : steps[j].res = Ok
     /\ ((/\ is_test(cli)
          /\ n >= 4
          /\ \A j \in 1..4 : steps[j].res = Ok
          /\ pc \in {"done", "failed"}) => n = 5)
     /\ ((n = 5 /\ steps[5].res = Ok) =>
           IsSome(path_opt) /\ FileAt(Unwrap(path_opt)) = PETSTORE_YAML)
     /\ ((n = 5 /\ ~IsSome(path_opt)) => steps[5].res = TestingYAMLSpecPathMissing)

C8_Step ==
  /\ ((pc = "spec" /\ lastOp' = "create_testing_spec_file"
         /\ ~IsSome(cli.local_api_spec_filepath_opt)) =>
        files' = files /\ outside' = outside /\ pc' = "failed")
  /\ (outside' # outside => (pc = "spec" /\ is_test(cli)))

\* C8: the test-spec step runs if and only if the invocation is a
\* test-generation request and all four earlier steps succeeded; when it
\* succeeds the embedded document is the content of the file at the resolved
\* local spec path; when no path was resolved it fails with
\* TestingYAMLSpecPathMissing and writes nothing; in non-test mode it never
\* runs.
C8_TestSpecEmission == []C8_Steps /\ [][C8_Step]_vars

\* The embedded document written to a spec path inside the target directory.
C8_Witness ==
  /\ is_test(cli)
  /\ pc = "done"
  /\ Len(steps) = 5
  /\ cli.local_api_spec_filepath_opt = Some(SpecPathInside)
  /\ SpecPathInside \in DOMAIN files
  /\ files[SpecPathInside] = PETSTORE_YAML

\* setup_git_in_crate has just returned success.
GitStepDone ==
  /\ lastOp = "setup_git_in_crate"
  /\ LastStep.res = Ok

\* The lines of a content that hold a token.
NonEmptyLines(content) ==
  {i \in DOMAIN Lines(content) : Lines(content)[i] # <<>>}

\* C9 as stated: after setup_git_in_crate succeeds the ignore file contains
\* exactly one line, which names the internal working subdirectory.
C9_AsStated ==
  GitStepDone =>
    /\ Paths_GitignoreFile \in DOMAIN files
    /\ Len(Lines(files[Paths_GitignoreFile])) = 1
    /\ Lines(files[Paths_GitignoreFile])[1] = <<"/", Paths_TempDir>>

\* C9, amended: after setup_git_in_crate succeeds the ignore file's content
\* is a line break followed by "/" and the internal working subdirectory's
\* name: an empty first line, then exactly one non-empty line, which names
\* the subdirectory; the file was written, not appended, so nothing it held
\* before (the initializer's entries included) is in it.
C9_IgnoreFile ==
  GitStepDone =>
    /\ Paths_GitignoreFile \in DOMAIN files
    /\ Lines(files[Paths_GitignoreFile]) = << <<>>, <<"/", Paths_TempDir>> >>
    /\ Cardinality(NonEmptyLines(files[Paths_GitignoreFile])) = 1
    /\ \A i \in DOMAIN files[Paths_GitignoreFile] :
         files[Paths_GitignoreFile][i] \notin
           {"/target", "*.log", "/secrets"}

\* The ignore file written over the one the initializer had put there with
\* the repository it set up.
C9_Witness ==
  /\ GitStepDone
  /\ ".git" \in DOMAIN files
  /\ procOut = InitSuccess
  /\ files[Paths_GitignoreFile] = GitignoreContent(Paths_TempDir)

\* C10: in the environment MakefileEnv::try_from builds, SPEC_FILE_URL is the
\* supplied default spec URL, or the empty string when none was supplied; so
\* in every Graph Spec spec-download-default is a task exactly when
\* SPEC_FILE_URL is not empty.
C10_SpecFileUrl ==
  SpecBuilt =>
    LET spec == Unwrap(makefileSpec) IN
    /\ spec.env.SPEC_FILE_URL =
         (IF IsSome(cli.api_spec_url_opt) THEN Unwrap(cli.api_spec_url_opt) ELSE "")
    /\ ("spec-download-default" \in DOMAIN spec.tasks <=> spec.env.SPEC_FILE_URL # "")

\* A Graph Spec built from the default spec URL https://example.com/spec.json.
C10_Witness ==
  /\ SpecBuilt
  /\ Unwrap(makefileSpec).env.SPEC_FILE_URL = "https://example.com/spec.json"
  /\ "spec-download-default" \in DOMAIN Unwrap(makefileSpec).tasks

\* What MakefileSpec::try_from returned in this invocation.
Assembled == Unwrap(makefileSpec)

\* For every CLI context whose spec-file name resolves, MakefileSpec::try_from
\* succeeds when the generate-all constructor does, and otherwise returns
\* that constructor's error and nothing else.
OnlyGenerateAllFails ==
  \A c \in Clis :
    try_get_spec_file_name(c).kind = "Ok" =>
      /\ MakefileSpec_try_from(c, "Ok").kind = "Ok"
      /\ \A k \in ConfiguratorOutcomes \ {"Ok"} :
           MakefileSpec_try_from(c, k) = [kind |-> k, env |-> <<>>, tasks |-> EmptyDir]

\* C11: MakefileSpec::try_from is all-or-nothing.  It returns the
\* missing-parameter error exactly when the spec-file name cannot be resolved
\* from the CLI context, and the error of the generate-all constructor
\* (building or serializing the cargo configurator) when the name resolves
\* and that constructor fails; in both cases it returns the error with no
\* environment and no task, and nothing is written.  Nothing else can fail:
\* when the name resolves and the generate-all constructor succeeds, the
\* Graph Spec is produced with its whole task catalog.
C11_AllOrNothing ==
  /\ OnlyGenerateAllFails
  /\ (IsSome(makefileSpec) =>
        /\ Assembled.kind \in {"Ok", "ParameterError"} \cup ConfiguratorOutcomes
        /\ (Assembled.kind = "ParameterError" <=>
              try_get_spec_file_name(cli).kind = "ParameterError")
        /\ (Assembled.kind # "Ok" =>
              /\ Assembled.env = <<>>
              /\ Assembled.tasks = EmptyDir
              /\ makefileWrite = Pending)
        /\ (Assembled.kind = "Ok" =>
              /\ FixedTaskNames \subseteq DOMAIN Assembled.tasks
              /\ Assembled.env.SPEC_FILE_NAME = try_get_spec_file_name(cli).value))

\* The spec-file name resolved, the generate-all constructor failed on
\* serialization: the error is returned and no task catalog with it.
C11_Witness ==
  /\ IsSome(makefileSpec)
  /\ try_get_spec_file_name(cli).kind = "Ok"
  /\ Assembled.kind = "SerdeYAMLError"
  /\ Assembled.tasks = EmptyDir

\* The exit status of a condition script of the form
\*   if command -v <executable> ... ; then <lines> else <lines> fi
\* run where the executable is, or is not, found on the path: the status of
\* the first exit line of the branch taken, 0 when the branch has none.
RECURSIVE FirstExit(_, _, _)
FirstExit(script, i, stop) ==
  IF i > Len(script) \/ script[i] \in stop THEN 0
  ELSE IF script[i] = "exit 0" THEN 0
  ELSE IF script[i] = "exit 1" THEN 1
  ELSE FirstExit(script, i + 1, stop)
LineOf(script, line) == CHOOSE i \in DOMAIN script : script[i] = line
ConditionExit(script, found) ==
  IF found
    THEN FirstExit(script,
                   LineOf(script,
                     "if command -v ${OPEN_API_GENERATOR_CLI_SCRIPT} >& /dev/null ;  then") + 1,
                   {"else", "fi"})
    ELSE FirstExit(script, LineOf(script, "else") + 1, {"fi"})

lib_code_generate == make_lib_code_generator_task(None)
lib_code_generate_dry_run == make_lib_code_generator_task(Some(TRUE))

\* C12: the generate task and its dry-run variant differ only in name and
\* arguments.  The generate task's arguments are the fixed option list
\* (generate, --generator-name rust, --output, --input-spec, --config); the
\* dry-run variant's are that list with the one flag --dry-run appended at
\* the end; its name is the generate task's name with the suffix -dry-run.
\* Both carry the same command and the same condition script, which exits 0
\* when the generator executable is found on the path and non-zero otherwise.
\* In a Graph Spec, where both were built one after the other, the generate
\* task still carries the option list without the flag.
C12_GenerateVariants ==
  LET g == lib_code_generate
      d == lib_code_generate_dry_run
      script == Unwrap(g.task.condition_script)
  IN /\ g.task.args = Some(CODE_GENERATION_OPTS)
     /\ CODE_GENERATION_OPTS =
          << "generate", "--generator-name", "rust", "--output", "${OUTPUT_DIR}",
             "--input-spec", "${SPEC_FILE_PATH}",
             "--config", "${OPEN_API_GENERATOR_CONFIG_PATH}" >>
     /\ d.task.args = Some(Append(CODE_GENERATION_OPTS, "--dry-run"))
     /\ \A i \in DOMAIN Unwrap(g.task.args) : Unwrap(g.task.args)[i] # "--dry-run"
     /\ g.name = "lib-code-generate"
     /\ d.name = g.name \o "-dry-run"
     /\ d.name # g.name
     /\ [d.task EXCEPT !.args = g.task.args] = g.task
     /\ d.task.command = g.task.command
     /\ IsSome(g.task.command)
     /\ d.task.condition_script = g.task.condition_script
     /\ ConditionExit(script, TRUE) = 0
     /\ ConditionExit(script, FALSE) # 0
     /\ make_lib_code_generator_task(Some(FALSE)) = g
     /\ (SpecBuilt =>
           /\ Assembled.tasks[g.name] = g.task
           /\ Assembled.tasks[d.name] = d.task
           /\ Len(Unwrap(Assembled.tasks[d.name].args))
                = Len(Unwrap(Assembled.tasks[g.name].args)) + 1)

\* A Graph Spec holding both variants, the dry-run one with the flag last.
C12_Witness ==
  /\ SpecBuilt
  /\ LET a == Unwrap(Assembled.tasks["lib-code-generate-dry-run"].args)
     IN a[Len(a)] = "--dry-run"
  /\ Unwrap(Assembled.tasks["lib-code-generate"].args) = CODE_GENERATION_OPTS

\* The arguments a task passes to its command.
ArgsOf(task) ==
  IF IsSome(task.args)
    THEN {Unwrap(task.args)[i] : i \in DOMAIN Unwrap(task.args)}
    ELSE {}

\* C13 as stated: in every Graph Spec the create-output task's command and
\* argument list together name the output directory (the OUTPUT_DIR entry)
\* as the directory to create, as the clean-output task's name the output
\* directory's contents as what to remove.
C13_AsStated ==
  SpecBuilt =>
    LET create == Assembled.tasks["output-dir-create"]
        clean == Assembled.tasks["output-dir-clean"]
    IN /\ Assembled.env.OUTPUT_DIR # ""
       /\ clean.command = Some("rm")
       /\ "${OUTPUT_DIR}/*" \in ArgsOf(clean)
       /\ create.command = Some("mkdir")
       /\ "${OUTPUT_DIR}" \in ArgsOf(create)

\* C14 as stated: after a non-test invocation aborted at init_crate or later
\* with an entry it created left in the target directory, the next
\* invocation, if not in test mode, fails at step 1 with NonEmptyTargetDir
\* and, if in test mode, passes step 1.
C14_AsStated ==
  (prevAborted /\ steps # <<>>) =>
    IF is_test(cli)
      THEN steps[1].res = Ok
      ELSE steps[1].res = NonEmptyTargetDir(OutputProjectDir) /\ Len(steps) = 1

\* C14, amended: an aborted non-test invocation rolls nothing back, so the
\* next invocation finds the target directory populated.  If it is not in
\* test mode it fails at step 1, with NonEmptyTargetDir or with the I/O error
\* of a failing create_dir_all or read_dir, runs no later step and leaves
\* the entries as they are.  If it is in test mode, step 1 is
\* create_testing_folder, which passes unless remove_dir_all or
\* create_dir_all fails with an I/O error, and when it passes the directory
\* has been wiped and recreated empty.
C14_AfterAbort ==
  prevAborted =>
    /\ runs >= 2
    /\ WasPopulated
    /\ ((steps # <<>> /\ ~is_test(cli)) =>
          /\ steps[1].name = "create_crate_folder_and_check_empty"
          /\ steps[1].res \in {NonEmptyTargetDir(OutputProjectDir), IOError}
          /\ pc = "failed"
          /\ Len(steps) = 1
          /\ (makefileWrite # Ok => files = pre.files))
    /\ ((steps # <<>> /\ is_test(cli)) =>
          /\ steps[1].name = "create_testing_folder"
          /\ steps[1].res \in {Ok, IOError}
          /\ ((steps[1].res = Ok /\ lastOp = "create_testing_folder") =>
                dirExists /\ files = EmptyDir)
          /\ (steps[1].res = Ok => DOMAIN pre.files \subseteq written))

\* The invocation after an aborted one, not in test mode, refused at step 1
\* by the manifest the aborted one left.
C14_Witness ==
  /\ prevAborted
  /\ ~is_test(cli)
  /\ "Cargo.toml" \in DOMAIN pre.files
  /\ pc = "failed"
  /\ Len(steps) = 1
  /\ result = NonEmptyTargetDir(OutputProjectDir)

\* This invocation is a test-generation request with no local spec path.
TestWithoutSpecPath == is_test(cli) /\ ~IsSome(cli.local_api_spec_filepath_opt)

\* C15: in a test-generation invocation with no local spec path resolved,
\* nothing checks the path before the steps run: the first thing done is
\* create_testing_folder, and TestingYAMLSpecPathMissing is returned only by
\* create_testing_spec_file, the fifth step, after the four steps before it
\* succeeded.  By then what the target directory held has been removed, the
\* initializer has run and put its manifest there, the internal subdirectory
\* has been created and the ignore file written; they are in the directory
\* if it is still there.  Such an invocation never returns success.
C15_LateValidation ==
  TestWithoutSpecPath =>
    LET n == Len(steps) IN
    /\ pc # "done"
    /\ (n >= 1 => steps[1].name = "create_testing_folder")
    /\ \A i \in 1..n :
         steps[i].res = TestingYAMLSpecPathMissing =>
           /\ i = 5
           /\ steps[i].name = "create_testing_spec_file"
           /\ \A j \in 1..4 : steps[j].res = Ok
    /\ (n = 5 => steps[5].res = TestingYAMLSpecPathMissing)
    /\ (result = TestingYAMLSpecPathMissing =>
          /\ n = 5
          /\ pc = "failed"
          /\ DOMAIN pre.files \subseteq written
          /\ {"Cargo.toml", Paths_TempDir, Paths_GitignoreFile} \subseteq written
          /\ (dirExists =>
                /\ {Paths_TempDir, Paths_GitignoreFile} \subseteq DOMAIN files
                /\ files[Paths_GitignoreFile] = GitignoreContent(Paths_TempDir)
                /\ (makefileWrite # Ok => DOMAIN files \subseteq written)))

\* The missing path reported at the fifth step, with the user's entries gone
\* and the manifest, the subdirectory and the ignore file in their place.
C15_Witness ==
  /\ TestWithoutSpecPath
  /\ result = TestingYAMLSpecPathMissing
  /\ lastOp = "create_testing_spec_file"
  /\ "README.md" \in DOMAIN pre.files
  /\ "README.md" \notin DOMAIN files
  /\ {"Cargo.toml", Paths_TempDir, Paths_GitignoreFile} \subseteq DOMAIN files

====
